---- MODULE Spec2Model ----
(***************************************************************************)
(* code-buddy: the change cache (src/src/change-cache.ts), the streaming   *)
(* inference client (LiveCoder.summarizeFile / generate) and the git-aware *)
(* change tracker (onEvent, baselines).                                    *)
(*                                                                         *)
(* Texts are sequences of one-character strings, so that trim, split,      *)
(* substring search and JSON parsing are computed and not assumed.         *)
(*                                                                         *)
(* The module holds three state machines over one set of variables; each   *)
(* specification starts the other machines idle and leaves them unchanged. *)
(***************************************************************************)
EXTENDS Integers, Sequences, FiniteSets, TLC

VARIABLES
    \* ---- ChangeCache (src/src/change-cache.ts)
    maxSize,      \* ChangeCache.maxSize
    changes,      \* ChangeCache.changes: sequence of [text, ts]
    now,          \* the clock read by Date.now()
    last,         \* history: the last ChangeCache call, its argument (trimmed
                  \* for add), whether it evicted, whether it repeats the add
                  \* before it, and size() before the call
    \* ---- LiveCoder.summarizeFile / generate (src/unnamed/part_000)
    gpc,          \* position of summarizeFile: idle, awaiting, returned, caught
    promise,      \* the promise of generate: [state, error]
    res,          \* the response: none, flowing, discarded, ended, closed
    status,       \* res.statusCode
    wire,         \* body characters the endpoint has not delivered yet
    delivered,    \* history: the chunks handed to the data handler
    dropped,      \* history: body characters read with no data listener
    out,          \* process.stdout: sequence of writes [kind, text]
    errlog,       \* process.stderr: sequence of logged errors
    doneAt,       \* history: Len(out) when a done record first resolved, or -1
    parseFailed,  \* history: the catch branch of the data handler was taken
    doneSeen,     \* history: the data handler has read a record with done
    endSeen,      \* history: the end handler has run
    errSeen,      \* history: the request error handler has run
    \* ---- onEvent / baselines (src/src/index.ts 113-131 and 376-411)
    variant,      \* which onEvent runs: "first" (113-131) or "git" (378-402)
    disk,         \* path -> current file content
    stat,         \* path -> what fs.stat reports: [isFile, size]
    head,         \* path -> content in HEAD, or NoFile
    baselines,    \* the Map baselines: path -> content, or NoFile when absent
    setter,       \* history: path -> the invocation that last ran baselines.set
    evts,         \* the onEvent invocations, in the order the watcher made them
    \* ---- computeSimpleDiff (src/src/index.ts 413-425)
    oldContent,   \* the argument oldText
    newContent,   \* the argument newText
    diffText,     \* the returned text
    dpc,          \* position of the call: called, returned
    \* ---- the cache-based tracker of one path (spec.md 4.3, Mode B); its
    \* ChangeCache is the one above
    mbSeen,       \* the path has been observed
    mbBaseline,   \* the baseline of the path
    mbContent,    \* the content of the last edit
    mbThreshold,  \* the configured threshold of added lines
    mbReport      \* what the last edit led to: [kind, context, before]

cacheVars == <<maxSize, changes, now, last>>
streamVars == <<gpc, promise, res, status, wire, delivered, dropped, out, errlog,
                doneAt, parseFailed, doneSeen, endSeen, errSeen>>
trackerVars == <<variant, disk, stat, head, baselines, setter, evts>>
diffVars == <<oldContent, newContent, diffText, dpc>>
modeBVars == <<mbSeen, mbBaseline, mbContent, mbThreshold, mbReport>>
vars == <<cacheVars, streamVars, trackerVars, diffVars, modeBVars>>

----------------------------------------------------------------------------
(* Bounds *)

MaxN == 2            \* largest capacity a cache is constructed with
MaxSnippetLen == 1   \* longest fragment text, before padding with white space
MaxContentLen == 2   \* longest file content handed to removeDeleted

----------------------------------------------------------------------------
(* Texts *)

RECURSIVE SeqsUpTo(_, _)
SeqsUpTo(S, n) ==
    IF n = 0 THEN {<<>>}
    ELSE LET shorter == SeqsUpTo(S, n - 1)
         IN shorter \cup {Append(s, c) : s \in {t \in shorter : Len(t) = n - 1}, c \in S}

IsWhitespace(c) == c \in {" ", "\n"}

RECURSIVE TrimStart(_)
TrimStart(s) ==
    IF s # <<>> /\ IsWhitespace(Head(s)) THEN TrimStart(Tail(s)) ELSE s

RECURSIVE TrimEnd(_)
TrimEnd(s) ==
    IF s # <<>> /\ IsWhitespace(s[Len(s)])
    THEN TrimEnd(SubSeq(s, 1, Len(s) - 1))
    ELSE s

\* trimStart() for trim(): trailing white space stays
TrimStartOnly(s) == TrimStart(s)

\* String.prototype.trim
Trim(s) == TrimEnd(TrimStart(s))

\* startsWith() for includes()
IncludesAtStart(hay, needle) ==
    Len(needle) <= Len(hay) /\ SubSeq(hay, 1, Len(needle)) = needle

\* String.prototype.includes
Includes(hay, needle) ==
    \E i \in 0..(Len(hay) - Len(needle)) :
        SubSeq(hay, i + 1, i + Len(needle)) = needle

\* Array.prototype.join
RECURSIVE Join(_, _)
Join(ls, sep) ==
    IF ls = <<>> THEN <<>>
    ELSE IF Len(ls) = 1 THEN Head(ls)
    ELSE Head(ls) \o sep \o Join(Tail(ls), sep)

----------------------------------------------------------------------------
(* ChangeCache *)

FragmentChars == {"x", "y", "z"}
Cores == SeqsUpTo(FragmentChars, MaxSnippetLen)
Paddings == {<<>>, <<" ">>}

\* the values Date.now() takes
ClockTimes == {0, 1}

\* the arguments of add: a text, possibly with white space around it
Snippets == {l \o c \o r : l \in Paddings, c \in Cores, r \in Paddings}

\* the arguments of removeDeleted: file contents over the same characters
Contents == SeqsUpTo(FragmentChars, MaxContentLen)

\* add without the shift(): a full cache keeps growing
addNoShift(cs, n, snippet, t) ==
    LET s == Trim(snippet) IN
    IF s = <<>> THEN cs
    ELSE IF \E i \in DOMAIN cs : cs[i].text = s THEN cs
    ELSE Append(cs, [text |-> s, ts |-> t])

\* add with pop() for shift(): a full cache drops the newest fragment
addPop(cs, n, snippet, t) ==
    LET s == Trim(snippet) IN
    IF s = <<>> THEN cs
    ELSE IF \E i \in DOMAIN cs : cs[i].text = s THEN cs
    ELSE LET pushed == Append(cs, [text |-> s, ts |-> t])
         IN IF Len(pushed) > n THEN SubSeq(pushed, 1, Len(pushed) - 1) ELSE pushed

\* add without the some() test: a present fragment is pushed again
addNoDedupe(cs, n, snippet, t) ==
    LET s == Trim(snippet) IN
    IF s = <<>> THEN cs
    ELSE LET pushed == Append(cs, [text |-> s, ts |-> t])
         IN IF Len(pushed) > n THEN Tail(pushed) ELSE pushed

\* add whose some() test compares with the argument before trim()
addDedupeRaw(cs, n, snippet, t) ==
    LET s == Trim(snippet) IN
    IF s = <<>> THEN cs
    ELSE IF \E i \in DOMAIN cs : cs[i].text = snippet THEN cs
    ELSE LET pushed == Append(cs, [text |-> s, ts |-> t])
         IN IF Len(pushed) > n THEN Tail(pushed) ELSE pushed

\* add that renews a present fragment: it moves to the end with a new timestamp
addRefresh(cs, n, snippet, t) ==
    LET s == Trim(snippet) IN
    IF s = <<>> THEN cs
    ELSE LET rest == SelectSeq(cs, LAMBDA c : c.text # s)
             pushed == Append(rest, [text |-> s, ts |-> t])
         IN IF Len(pushed) > n THEN Tail(pushed) ELSE pushed

\* the sequence left by add(snippet) at clock time t
add(cs, n, snippet, t) ==
    LET s == Trim(snippet) IN
    IF s = <<>> THEN cs
    ELSE IF \E i \in DOMAIN cs : cs[i].text = s THEN cs
    ELSE LET pushed == Append(cs, [text |-> s, ts |-> t])
         IN IF Len(pushed) > n THEN Tail(pushed) ELSE pushed

\* whether add(snippet) reaches the shift()
addShifts(cs, n, snippet) ==
    LET s == Trim(snippet) IN
    /\ s # <<>>
    /\ ~ \E i \in DOMAIN cs : cs[i].text = s
    /\ Len(cs) + 1 > n

removeDeleted(cs, currentContent) ==
    SelectSeq(cs, LAMBDA c : Includes(currentContent, c.text))

\* clear that keeps the newest fragment
clearKeepsNewest == IF changes = <<>> THEN <<>> ELSE <<changes[Len(changes)]>>

\* clear that keeps the oldest fragment
clearKeepsOldest == IF changes = <<>> THEN <<>> ELSE <<changes[1]>>

clear == <<>>

isEmpty == Len(changes) = 0

size == Len(changes)

Texts(cs) == [i \in DOMAIN cs |-> cs[i].text]

\* getContext joining with one line feed
getContextOneFeed == Join(Texts(changes), <<"\n">>)

getContext == Join(Texts(changes), <<"\n", "\n">>)

CacheIdle ==
    /\ maxSize = 0
    /\ changes = <<>>
    /\ now = 0
    /\ last = [op |-> "new", text |-> <<>>, evicted |-> FALSE,
               repeat |-> FALSE, before |-> 0]

\* new ChangeCache(n)
CacheInit ==
    /\ maxSize \in 0..MaxN
    /\ changes = <<>>
    /\ now = 0
    /\ last = [op |-> "new", text |-> <<>>, evicted |-> FALSE,
               repeat |-> FALSE, before |-> 0]

CacheAdd(snippet) ==
    /\ changes' = add(changes, maxSize, snippet, now)
    /\ last' = [op |-> "add", text |-> Trim(snippet),
                evicted |-> addShifts(changes, maxSize, snippet),
                repeat |-> last.op = "add" /\ last.text = Trim(snippet),
                before |-> Len(changes)]
    /\ UNCHANGED <<maxSize, now>>
    /\ UNCHANGED <<streamVars, trackerVars, diffVars, modeBVars>>

CacheRemoveDeleted(currentContent) ==
    /\ changes' = removeDeleted(changes, currentContent)
    /\ last' = [op |-> "removeDeleted", text |-> currentContent,
                evicted |-> FALSE, repeat |-> FALSE, before |-> Len(changes)]
    /\ UNCHANGED <<maxSize, now>>
    /\ UNCHANGED <<streamVars, trackerVars, diffVars, modeBVars>>

CacheClear ==
    /\ changes' = clear
    /\ last' = [op |-> "clear", text |-> <<>>, evicted |-> FALSE,
                repeat |-> FALSE, before |-> Len(changes)]
    /\ UNCHANGED <<maxSize, now>>
    /\ UNCHANGED <<streamVars, trackerVars, diffVars, modeBVars>>

Tick ==
    /\ now + 1 \in ClockTimes
    /\ now' = now + 1
    /\ UNCHANGED <<maxSize, changes, last>>
    /\ UNCHANGED <<streamVars, trackerVars, diffVars, modeBVars>>

----------------------------------------------------------------------------
(* The streamed response: newline-delimited JSON records *)

MaxLines == 2        \* most lines in one response body
MaxChunks == 2       \* most chunks one body is delivered in

TokenTexts == {<<>>, <<"a">>, <<"b">>}
Records == [response : TokenTexts, done : BOOLEAN]

\* the text of one record as the endpoint writes it (JSON.stringify)
Stringify(r) == <<"{">> \o r.response \o <<IF r.done THEN "T" ELSE "F", "}">>

Garbage == <<"x">>
LineKinds == {Stringify(r) : r \in Records} \cup {Garbage}

RECURSIVE JoinLines(_)
JoinLines(ls) ==
    IF ls = <<>> THEN <<>> ELSE Head(ls) \o <<"\n">> \o JoinLines(Tail(ls))

Bodies == {JoinLines(ls) : ls \in SeqsUpTo(LineKinds, MaxLines)}

Statuses == {200, 400, 500}

\* JSON.parse: the record a text denotes, if it is the text of a record
JSONparse(line) ==
    LET n == Len(line) IN
    IF /\ n >= 3
       /\ line[1] = "{"
       /\ line[n] = "}"
       /\ line[n - 1] \in {"T", "F"}
       /\ \A i \in 2..(n - 2) : line[i] \in {"a", "b"}
    THEN [ok |-> TRUE,
          obj |-> [response |-> SubSeq(line, 2, n - 2), done |-> line[n - 1] = "T"]]
    ELSE [ok |-> FALSE, obj |-> [response |-> <<>>, done |-> FALSE]]

\* String.prototype.split on the line break: the segments, empty ones included
RECURSIVE SplitFrom(_, _)
SplitFrom(s, cur) ==
    IF s = <<>> THEN <<cur>>
    ELSE IF Head(s) = "\n" THEN <<cur>> \o SplitFrom(Tail(s), <<>>)
    ELSE SplitFrom(Tail(s), Append(cur, Head(s)))

Split(s) == SplitFrom(s, <<>>)

\* only the first line of a chunk is looked at
ChunkLinesFirstOnly(chunk) ==
    LET ls == SelectSeq(Split(chunk), LAMBDA l : l # <<>>)
    IN IF ls = <<>> THEN <<>> ELSE <<Head(ls)>>

\* chunk.toString().split(/\r?\n/).filter(Boolean)
ChunkLines(chunk) == SelectSeq(Split(chunk), LAMBDA l : l # <<>>)

TokenWrite(t) == [kind |-> "token", text |-> t]
RawWrite(t) == [kind |-> "raw", text |-> t]
Marker == [kind |-> "marker", text |-> <<"[", "o", "]", " ">>]
Newline == [kind |-> "newline", text |-> <<"\n">>]

\* the for loop of the data handler from line i on; acc records the writes made,
\* whether a record with done was read, whether resolve() was called, how many
\* writes preceded the first resolve(), and whether JSON.parse threw
RECURSIVE RunLines(_, _, _)
RunLines(lines, i, acc) ==
    IF i > Len(lines) THEN acc
    ELSE LET p == JSONparse(lines[i]) IN
         IF ~p.ok THEN [acc EXCEPT !.threw = TRUE]
         ELSE LET w == IF p.obj.response # <<>>
                       THEN Append(acc.writes, TokenWrite(p.obj.response))
                       ELSE acc.writes
              IN RunLines(lines, i + 1,
                     [acc EXCEPT !.writes = w,
                                 !.sawDone = acc.sawDone \/ p.obj.done,
                                 !.resolved = acc.resolved \/ p.obj.done,
                                 !.firstDone = IF p.obj.done /\ acc.firstDone < 0
                                               THEN Len(w) ELSE acc.firstDone])

\* res.on("data", ...): the try block, then the catch block when it threw
DataHandler(chunk) ==
    LET r == RunLines(ChunkLines(chunk), 1,
                 [writes |-> <<>>, sawDone |-> FALSE, resolved |-> FALSE,
                  firstDone |-> -1, threw |-> FALSE])
    IN IF r.threw THEN [r EXCEPT !.writes = Append(r.writes, RawWrite(chunk))] ELSE r

NoError == [kind |-> "none", code |-> 0]
HttpError(code) == [kind |-> "http", code |-> code]
RequestError == [kind |-> "request", code |-> 0]

Pending == [state |-> "pending", error |-> NoError]

\* a resolve() that never settles the promise
resolveLost(p) == p

\* a reject() that overrides a settled promise
rejectAlways(p, e) == [state |-> "rejected", error |-> e]

\* resolve() / reject(): only the first settles the promise
resolve(p) == IF p.state = "pending" THEN [state |-> "resolved", error |-> NoError] ELSE p
reject(p, e) == IF p.state = "pending" THEN [state |-> "rejected", error |-> e] ELSE p

\* the status test with > for >=
IsFailureStatusAbove(code) == code # 0 /\ code > 400

\* the status test of the response callback
IsFailureStatus(code) == code # 0 /\ code >= 400

\* the continuation of `await this.generate(...)` runs before any further I/O event
Quiescent == ~(gpc = "awaiting" /\ promise.state # "pending")

StreamIdle ==
    /\ gpc = "idle"
    /\ promise = Pending
    /\ res = "none"
    /\ status = 0
    /\ wire = <<>>
    /\ delivered = <<>>
    /\ dropped = <<>>
    /\ out = <<>>
    /\ errlog = <<>>
    /\ doneAt = -1
    /\ parseFailed = FALSE
    /\ doneSeen = FALSE
    /\ endSeen = FALSE
    /\ errSeen = FALSE

\* summarizeFile up to the await: the marker is written and the request sent
SummarizeFile ==
    /\ gpc = "idle"
    /\ gpc' = "awaiting"
    /\ out' = Append(out, Marker)
    /\ promise' = Pending
    /\ UNCHANGED <<res, status, wire, delivered, dropped, errlog, doneAt,
                   parseFailed, doneSeen, endSeen, errSeen>>
    /\ UNCHANGED <<cacheVars, trackerVars, diffVars, modeBVars>>

\* the response callback: status check, then the listeners are attached
OnResponse(code, body) ==
    /\ gpc = "awaiting"
    /\ res = "none"
    /\ ~errSeen
    /\ status' = code
    /\ wire' = body
    /\ IF IsFailureStatus(code)
       THEN /\ promise' = reject(promise, HttpError(code))
            /\ res' = "discarded"
       ELSE /\ promise' = promise
            /\ res' = "flowing"
    /\ UNCHANGED <<gpc, delivered, dropped, out, errlog, doneAt, parseFailed,
                   doneSeen, endSeen, errSeen>>
    /\ UNCHANGED <<cacheVars, trackerVars, diffVars, modeBVars>>

\* one chunk of k characters reaches the data handler
OnData(k) ==
    /\ res = "flowing"
    /\ Quiescent
    /\ k \in 1..Len(wire)
    /\ Len(delivered) < MaxChunks
    /\ Len(delivered) = MaxChunks - 1 => k = Len(wire)
    /\ LET chunk == SubSeq(wire, 1, k)
           r == DataHandler(chunk)
       IN /\ wire' = SubSeq(wire, k + 1, Len(wire))
          /\ delivered' = Append(delivered, chunk)
          /\ out' = out \o r.writes
          /\ promise' = IF r.resolved THEN resolve(promise) ELSE promise
          /\ doneAt' = IF doneAt < 0 /\ r.firstDone >= 0
                       THEN Len(out) + r.firstDone ELSE doneAt
          /\ parseFailed' = (parseFailed \/ r.threw)
          /\ doneSeen' = (doneSeen \/ r.sawDone)
    /\ UNCHANGED <<gpc, res, status, dropped, errlog, endSeen, errSeen>>
    /\ UNCHANGED <<cacheVars, trackerVars, diffVars, modeBVars>>

\* res.resume() with no data listener: the body is read and dropped
OnDiscard ==
    /\ res = "discarded"
    /\ wire # <<>>
    /\ Quiescent
    /\ wire' = <<>>
    /\ dropped' = dropped \o wire
    /\ UNCHANGED <<gpc, promise, res, status, delivered, out, errlog, doneAt,
                   parseFailed, doneSeen, endSeen, errSeen>>
    /\ UNCHANGED <<cacheVars, trackerVars, diffVars, modeBVars>>

\* the body is exhausted: res.on("end", () => resolve()), if it was attached
OnEnd ==
    /\ res \in {"flowing", "discarded"}
    /\ wire = <<>>
    /\ Quiescent
    /\ res' = "ended"
    /\ IF res = "flowing"
       THEN /\ promise' = resolve(promise)
            /\ endSeen' = TRUE
       ELSE UNCHANGED <<promise, endSeen>>
    /\ UNCHANGED <<gpc, status, wire, delivered, dropped, out, errlog, doneAt,
                   parseFailed, doneSeen, errSeen>>
    /\ UNCHANGED <<cacheVars, trackerVars, diffVars, modeBVars>>

\* req.on("error", reject): the connection fails, before or during the response
OnRequestError ==
    /\ gpc # "idle"
    /\ res \in {"none", "flowing", "discarded"}
    /\ ~errSeen
    /\ Quiescent
    /\ errSeen' = TRUE
    /\ promise' = reject(promise, RequestError)
    /\ res' = IF res = "none" THEN "none" ELSE "closed"
    /\ UNCHANGED <<gpc, status, wire, delivered, dropped, out, errlog, doneAt,
                   parseFailed, doneSeen, endSeen>>
    /\ UNCHANGED <<cacheVars, trackerVars, diffVars, modeBVars>>

\* summarizeFile after the await: the newline, or the catch block
Continue ==
    /\ gpc = "awaiting"
    /\ promise.state # "pending"
    /\ IF promise.state = "resolved"
       THEN /\ out' = Append(out, Newline)
            /\ gpc' = "returned"
            /\ errlog' = errlog
       ELSE /\ errlog' = Append(errlog, promise.error)
            /\ gpc' = "caught"
            /\ out' = out
    /\ UNCHANGED <<promise, res, status, wire, delivered, dropped, doneAt,
                   parseFailed, doneSeen, endSeen, errSeen>>
    /\ UNCHANGED <<cacheVars, trackerVars, diffVars, modeBVars>>

----------------------------------------------------------------------------
(* LineDiffer *)

\* the test reading oldLines one place further on
ChangedIndexesShifted(oldLines, newLines) ==
    {i \in DOMAIN newLines : i + 1 > Len(oldLines) \/ oldLines[i + 1] # newLines[i]}

\* the test passing over the lines oldLines has no counterpart for
ChangedIndexesWithinOld(oldLines, newLines) ==
    {i \in DOMAIN newLines : i <= Len(oldLines) /\ oldLines[i] # newLines[i]}

\* the test that also marks the last line kept when oldLines goes on after it
ChangedIndexesMarksCut(oldLines, newLines) ==
    {i \in DOMAIN newLines :
        \/ i > Len(oldLines)
        \/ oldLines[i] # newLines[i]
        \/ (i = Len(newLines) /\ Len(oldLines) > Len(newLines))}

\* the indexes of newLines the forEach pushes a change for
ChangedIndexes(oldLines, newLines) ==
    {i \in DOMAIN newLines : i > Len(oldLines) \/ oldLines[i] # newLines[i]}

RECURSIVE ChangesFrom(_, _, _)
ChangesFrom(oldLines, newLines, i) ==
    IF i > Len(newLines) THEN <<>>
    ELSE (IF i \in ChangedIndexes(oldLines, newLines)
          THEN << <<"+", " ">> \o newLines[i] >> ELSE <<>>)
         \o ChangesFrom(oldLines, newLines, i + 1)

\* the two arguments taken the other way round
computeSimpleDiffSwapped(oldText, newText) ==
    Join(ChangesFrom(Split(newText), Split(oldText), 1), <<"\n">>)

computeSimpleDiff(oldText, newText) ==
    Join(ChangesFrom(Split(oldText), Split(newText), 1), <<"\n">>)

MaxTextLen == 3      \* longest text handed to computeSimpleDiff

DiffChars == {"a", "b", "\n"}
DiffTexts == SeqsUpTo(DiffChars, MaxTextLen)

DiffIdle ==
    /\ oldContent = <<>>
    /\ newContent = <<>>
    /\ diffText = <<>>
    /\ dpc = "idle"

\* computeSimpleDiff is called with two texts
DiffInit ==
    /\ oldContent \in DiffTexts
    /\ newContent \in DiffTexts
    /\ diffText = <<>>
    /\ dpc = "called"

\* computeSimpleDiff returns
ComputeDiff ==
    /\ dpc = "called"
    /\ diffText' = computeSimpleDiff(oldContent, newContent)
    /\ dpc' = "returned"
    /\ UNCHANGED <<oldContent, newContent>>
    /\ UNCHANGED <<cacheVars, streamVars, trackerVars, modeBVars>>

\* one edit: a line c is appended to a file of two lines
Scenario1Baseline == <<"a", "\n", "b", "\n">>
Scenario1Content == <<"a", "\n", "b", "\n", "c", "\n">>

ScenarioContents == {Scenario1Baseline, Scenario1Content}

\* the lines of these contents, as arguments of add
ScenarioSnippets == UNION {{Split(t)[i] : i \in DOMAIN Split(t)} : t \in ScenarioContents}

\* new ChangeCache(3), and computeSimpleDiff called with the baseline and the
\* new content
ScenarioInit ==
    /\ maxSize = 3
    /\ changes = <<>>
    /\ now = 0
    /\ last = [op |-> "new", text |-> <<>>, evicted |-> FALSE,
               repeat |-> FALSE, before |-> 0]
    /\ oldContent = Scenario1Baseline
    /\ newContent = Scenario1Content
    /\ diffText = <<>>
    /\ dpc = "called"

----------------------------------------------------------------------------
(* onEvent and the baselines map *)

MaxEvents == 2       \* most change events the watcher delivers

\* the size limit of the first onEvent: 1024 * 1024 * 2
MaxFileSize == 2097152

Paths == {"p", "q"}
FileTexts == {<<"a">>, <<"a", "\n", "b">>, <<"b">>}
CommittedText == <<"a">>

EmptyMap == [x \in {} |-> <<>>]

\* what fs.stat can report of a watched path
RegularFile == [isFile |-> TRUE, size |-> MaxFileSize]
StatResults == {RegularFile,
                [isFile |-> TRUE, size |-> MaxFileSize + 1],
                [isFile |-> FALSE, size |-> 0]}

\* stat.size > 1024 * 1024 * 2
IsTooLarge(st) == st.size > MaxFileSize

\* baselines.get(abs) ?? headContent
lastBaselineOf(bl, abs, headContent) ==
    IF abs \in DOMAIN bl THEN bl[abs] ELSE headContent

\* a set that writes the content under every key of the map
baselinesSetEvery(bl, abs, content) == [q \in DOMAIN bl \cup {abs} |-> content]

\* baselines.set(abs, content)
baselinesSet(bl, abs, content) == (abs :> content) @@ bl

\* the statements of onEvent between the revision lookup and the diff lookup
TrackEdit(e, headContent) ==
    LET lb == lastBaselineOf(baselines, e.path, headContent)
    IN [e EXCEPT !.headContent = headContent,
                 !.lastBaseline = lb,
                 !.localDiff = computeSimpleDiff(lb, e.content),
                 !.basedOn = IF e.path \in DOMAIN baselines THEN setter[e.path] ELSE 0,
                 !.pc = "gitDiff"]

\* an invocation of onEvent at its first await; read, emitted, failed and
\* basedOn are history: whether the content was read, how many times
\* summarizeFile was called, which await threw, and whose baseline was diffed
NewEvent(p) ==
    [path |-> p, pc |-> IF variant = "first" THEN "stat" ELSE "readFile",
     content |-> <<>>, headContent |-> <<>>,
     lastBaseline |-> <<>>, localDiff |-> <<>>, analysis |-> "none",
     read |-> FALSE, emitted |-> 0, failed |-> "none", basedOn |-> 0]

TrackerIdle ==
    /\ variant = "git"
    /\ disk = EmptyMap
    /\ stat = EmptyMap
    /\ head = EmptyMap
    /\ baselines = EmptyMap
    /\ setter = EmptyMap
    /\ evts = <<>>

\* a clean working tree: every file holds the committed text, some are untracked
CleanTree ==
    /\ disk = [p \in Paths |-> CommittedText]
    /\ \E tracked \in SUBSET Paths : head = [p \in tracked |-> CommittedText]
    /\ baselines = EmptyMap
    /\ setter = EmptyMap
    /\ evts = <<>>

\* the git-aware onEvent over regular files within the size limit
TrackerInit ==
    /\ variant = "git"
    /\ stat = [p \in Paths |-> RegularFile]
    /\ CleanTree

\* either onEvent, over paths of any kind and size
OnEventInit ==
    /\ variant \in {"first", "git"}
    /\ stat \in [Paths -> StatResults]
    /\ CleanTree

\* the file is saved and the watcher calls onEvent, which runs to its first await
Edit(p, c) ==
    /\ Len(evts) < MaxEvents
    /\ c # disk[p]
    /\ disk' = [disk EXCEPT ![p] = c]
    /\ evts' = Append(evts, NewEvent(p))
    /\ UNCHANGED <<variant, stat, head, baselines, setter>>
    /\ UNCHANGED <<cacheVars, streamVars, diffVars, modeBVars>>

\* first onEvent: await fs.stat(abs) returns; the path is skipped unless it is
\* a regular file of at most 2 MB
StatDone(i) ==
    /\ evts[i].pc = "stat"
    /\ LET st == stat[evts[i].path]
       IN evts' = [evts EXCEPT ![i].pc =
                      IF ~ st.isFile THEN "returned"
                      ELSE IF IsTooLarge(st) THEN "skipped"
                      ELSE "readFile"]
    /\ UNCHANGED <<variant, disk, stat, head, baselines, setter>>
    /\ UNCHANGED <<cacheVars, streamVars, diffVars, modeBVars>>

\* first onEvent: await fs.stat(abs) throws and the catch block logs it
StatFail(i) ==
    /\ evts[i].pc = "stat"
    /\ evts' = [evts EXCEPT ![i].pc = "logged", ![i].failed = "stat"]
    /\ UNCHANGED <<variant, disk, stat, head, baselines, setter>>
    /\ UNCHANGED <<cacheVars, streamVars, diffVars, modeBVars>>

\* await fs.readFile(abs, "utf8") returns; the first onEvent goes on to call
\* summarizeFile, the git-aware one to the revision lookup
ReadFileDone(i) ==
    /\ evts[i].pc = "readFile"
    /\ stat[evts[i].path].isFile
    /\ evts' = [evts EXCEPT ![i].content = disk[evts[i].path],
                            ![i].read = TRUE,
                            ![i].pc = IF variant = "first" THEN "summarize" ELSE "catFile",
                            ![i].emitted = IF variant = "first" THEN 1 ELSE 0]
    /\ UNCHANGED <<variant, disk, stat, head, baselines, setter>>
    /\ UNCHANGED <<cacheVars, streamVars, diffVars, modeBVars>>

\* await fs.readFile throws: the first onEvent logs it in its catch block, the
\* git-aware onEvent rejects
ReadFileFail(i) ==
    /\ evts[i].pc = "readFile"
    /\ evts' = [evts EXCEPT ![i].pc = IF variant = "first" THEN "logged" ELSE "rejected",
                            ![i].failed = "readFile"]
    /\ UNCHANGED <<variant, disk, stat, head, baselines, setter>>
    /\ UNCHANGED <<cacheVars, streamVars, diffVars, modeBVars>>

\* await fileExistsInHEAD returns; when false the baseline is updated at once
CatFileDone(i, ok) ==
    /\ evts[i].pc = "catFile"
    /\ ok => evts[i].path \in DOMAIN head
    /\ IF ok
       THEN /\ evts' = [evts EXCEPT ![i].pc = "show"]
            /\ UNCHANGED <<baselines, setter>>
       ELSE /\ evts' = [evts EXCEPT ![i] =
                           [TrackEdit(evts[i], <<>>) EXCEPT !.failed = "catFile"]]
            /\ baselines' = baselinesSet(baselines, evts[i].path, evts[i].content)
            /\ setter' = (evts[i].path :> i) @@ setter
    /\ UNCHANGED <<variant, disk, stat, head>>
    /\ UNCHANGED <<cacheVars, streamVars, diffVars, modeBVars>>

\* await gitInstance.show returns; the baseline is updated
ShowDone(i) ==
    /\ evts[i].pc = "show"
    /\ evts' = [evts EXCEPT ![i] = TrackEdit(evts[i], head[evts[i].path])]
    /\ baselines' = baselinesSet(baselines, evts[i].path, evts[i].content)
    /\ setter' = (evts[i].path :> i) @@ setter
    /\ UNCHANGED <<variant, disk, stat, head>>
    /\ UNCHANGED <<cacheVars, streamVars, diffVars, modeBVars>>

\* await gitInstance.show throws: onEvent rejects
ShowFail(i) ==
    /\ evts[i].pc = "show"
    /\ evts' = [evts EXCEPT ![i].pc = "rejected", ![i].failed = "show"]
    /\ UNCHANGED <<variant, disk, stat, head, baselines, setter>>
    /\ UNCHANGED <<cacheVars, streamVars, diffVars, modeBVars>>

\* await gitInstance.diff returns and summarizeFile is called
GitDiffDone(i) ==
    /\ evts[i].pc = "gitDiff"
    /\ evts' = [evts EXCEPT ![i].pc = "summarize", ![i].emitted = 1]
    /\ UNCHANGED <<variant, disk, stat, head, baselines, setter>>
    /\ UNCHANGED <<cacheVars, streamVars, diffVars, modeBVars>>

\* await gitInstance.diff throws: onEvent rejects
GitDiffFail(i) ==
    /\ evts[i].pc = "gitDiff"
    /\ evts' = [evts EXCEPT ![i].pc = "rejected", ![i].failed = "gitDiff"]
    /\ UNCHANGED <<variant, disk, stat, head, baselines, setter>>
    /\ UNCHANGED <<cacheVars, streamVars, diffVars, modeBVars>>

\* a summarizeFile whose failure puts the baseline back to what it was diffed
\* against
SummarizeDoneRollsBack(i, result) ==
    /\ evts[i].pc = "summarize"
    /\ evts' = [evts EXCEPT ![i].pc = "done", ![i].analysis = result]
    /\ baselines' = IF result = "failed"
                    THEN baselinesSet(baselines, evts[i].path, evts[i].lastBaseline)
                    ELSE baselines
    /\ UNCHANGED <<variant, disk, stat, head, setter>>
    /\ UNCHANGED <<cacheVars, streamVars, diffVars, modeBVars>>

\* await live.summarizeFile returns, whether generate resolved or rejected
SummarizeDone(i, result) ==
    /\ evts[i].pc = "summarize"
    /\ evts' = [evts EXCEPT ![i].pc = "done", ![i].analysis = result]
    /\ UNCHANGED <<variant, disk, stat, head, baselines, setter>>
    /\ UNCHANGED <<cacheVars, streamVars, diffVars, modeBVars>>

----------------------------------------------------------------------------
(* The cache-based tracker (Mode B) *)

MaxThreshold == 1    \* largest configured threshold of added lines
MaxEditLines == 2    \* most lines of a content the cache-based tracker is given

EditLines == {<<>>, <<"x">>, <<"y">>}
EditTexts ==
    {Join(ls, <<"\n">>) : ls \in SeqsUpTo(EditLines, MaxEditLines) \ {<<>>}}

\* the added lines of the diff, as indexes of the new lines
AddedIndexes(oldText, newText) == ChangedIndexes(Split(oldText), Split(newText))

\* the added lines grouped by hunk: each run of consecutive added lines, its
\* lines trimmed and the empty ones left out, is one fragment
RECURSIVE FragmentsFrom(_, _, _, _)
FragmentsFrom(newLines, added, i, run) ==
    LET closed == IF run = <<>> THEN <<>> ELSE << Join(run, <<"\n">>) >>
    IN IF i > Len(newLines) THEN closed
       ELSE IF i \in added
            THEN FragmentsFrom(newLines, added, i + 1,
                     IF Trim(newLines[i]) = <<>> THEN run
                     ELSE Append(run, Trim(newLines[i])))
            ELSE closed \o FragmentsFrom(newLines, added, i + 1, <<>>)

Fragments(oldText, newText) ==
    FragmentsFrom(Split(newText), AddedIndexes(oldText, newText), 1, <<>>)

\* add called for each fragment in turn
RECURSIVE AddAll(_, _)
AddAll(cs, frags) ==
    IF frags = <<>> THEN cs
    ELSE AddAll(add(cs, maxSize, Head(frags), now), Tail(frags))

NoReport == [kind |-> "none", context |-> <<>>, before |-> 0]

ModeBIdle ==
    /\ mbSeen = FALSE
    /\ mbBaseline = <<>>
    /\ mbContent = <<>>
    /\ mbThreshold = 0
    /\ mbReport = NoReport

\* a path not yet observed, and a configured threshold
ModeBInit ==
    /\ mbSeen = FALSE
    /\ mbBaseline = <<>>
    /\ mbContent = <<>>
    /\ mbThreshold \in 0..MaxThreshold
    /\ mbReport = NoReport

\* an edit of the path with the given content
ModeBEdit(content) ==
    /\ mbContent' = content
    /\ mbSeen' = TRUE
    /\ IF ~ mbSeen
       THEN /\ mbBaseline' = content
            /\ changes' = <<>>
            /\ mbReport' = [kind |-> "first", context |-> <<>>, before |-> Len(changes)]
       ELSE IF Cardinality(AddedIndexes(mbBaseline, content)) > mbThreshold
       THEN /\ mbBaseline' = content
            /\ changes' = clear
            /\ mbReport' = [kind |-> "reset", context |-> <<>>, before |-> Len(changes)]
       ELSE /\ mbBaseline' = mbBaseline
            /\ changes' = removeDeleted(
                              AddAll(changes, Fragments(mbBaseline, content)), content)
            /\ mbReport' = IF Len(changes') = 0
                           THEN [kind |-> "quiet", context |-> <<>>,
                                 before |-> Len(changes)]
                           ELSE [kind |-> "emit",
                                 context |-> Join(Texts(changes'), <<"\n", "\n">>),
                                 before |-> Len(changes)]
    /\ UNCHANGED <<maxSize, now, last, mbThreshold>>
    /\ UNCHANGED <<streamVars, trackerVars, diffVars>>

----------------------------------------------------------------------------
(* Specifications *)

CacheSpecNext ==
    \/ \E s \in Snippets : CacheAdd(s)
    \/ \E c \in Contents : CacheRemoveDeleted(c)
    \/ CacheClear
    \/ Tick

CacheSpecInit == CacheInit /\ StreamIdle /\ TrackerIdle /\ DiffIdle /\ ModeBIdle
CacheSpec == CacheSpecInit /\ [][CacheSpecNext]_vars

StreamSpecNext ==
    \/ SummarizeFile
    \/ \E code \in Statuses, body \in Bodies : OnResponse(code, body)
    \/ \E k \in 1..Len(wire) : OnData(k)
    \/ OnDiscard
    \/ OnEnd
    \/ OnRequestError
    \/ Continue

StreamSpecInit == StreamIdle /\ CacheIdle /\ TrackerIdle /\ DiffIdle /\ ModeBIdle
StreamSpec == StreamSpecInit /\ [][StreamSpecNext]_vars

\* the continuation of an await runs once its promise has settled
StreamFairSpec == StreamSpec /\ WF_vars(Continue)

TrackerSpecNext ==
    \/ \E p \in Paths, c \in FileTexts : Edit(p, c)
    \/ \E i \in DOMAIN evts : ReadFileDone(i)
    \/ \E i \in DOMAIN evts : ReadFileFail(i)
    \/ \E i \in DOMAIN evts, ok \in BOOLEAN : CatFileDone(i, ok)
    \/ \E i \in DOMAIN evts : ShowDone(i)
    \/ \E i \in DOMAIN evts : ShowFail(i)
    \/ \E i \in DOMAIN evts : GitDiffDone(i)
    \/ \E i \in DOMAIN evts : GitDiffFail(i)
    \/ \E i \in DOMAIN evts, r \in {"ok", "failed"} : SummarizeDone(i, r)

TrackerSpecInit == TrackerInit /\ CacheIdle /\ StreamIdle /\ DiffIdle /\ ModeBIdle
TrackerSpec == TrackerSpecInit /\ [][TrackerSpecNext]_vars

\* either onEvent, whatever fs.stat reports of the paths
OnEventSpecNext ==
    \/ \E p \in Paths, c \in FileTexts : Edit(p, c)
    \/ \E i \in DOMAIN evts : ReadFileDone(i)
    \/ \E i \in DOMAIN evts : ReadFileFail(i)
    \/ \E i \in DOMAIN evts, ok \in BOOLEAN : CatFileDone(i, ok)
    \/ \E i \in DOMAIN evts : ShowDone(i)
    \/ \E i \in DOMAIN evts : ShowFail(i)
    \/ \E i \in DOMAIN evts : GitDiffDone(i)
    \/ \E i \in DOMAIN evts : GitDiffFail(i)
    \/ \E i \in DOMAIN evts, r \in {"ok", "failed"} : SummarizeDone(i, r)
    \/ \E i \in DOMAIN evts : StatDone(i)
    \/ \E i \in DOMAIN evts : StatFail(i)

OnEventSpecInit == OnEventInit /\ CacheIdle /\ StreamIdle /\ DiffIdle /\ ModeBIdle
OnEventSpec == OnEventSpecInit /\ [][OnEventSpecNext]_vars

\* edits of one path under the cache-based tracker
ModeBSpecNext ==
    \/ \E c \in EditTexts : ModeBEdit(c)
    \/ Tick

ModeBSpecInit == ModeBInit /\ CacheInit /\ StreamIdle /\ TrackerIdle /\ DiffIdle
ModeBSpec == ModeBSpecInit /\ [][ModeBSpecNext]_vars

\* a call of computeSimpleDiff on any two texts within the bound
DiffSpecNext == ComputeDiff

DiffSpecInit == DiffInit /\ CacheIdle /\ StreamIdle /\ TrackerIdle /\ ModeBIdle
DiffSpec == DiffSpecInit /\ [][DiffSpecNext]_vars

\* the diff of the appended line, and a cache of capacity 3 fed with lines
ScenarioSpecNext ==
    \/ ComputeDiff
    \/ \E s \in ScenarioSnippets : CacheAdd(s)
    \/ \E c \in ScenarioContents : CacheRemoveDeleted(c)
    \/ CacheClear
    \/ Tick

ScenarioSpecInit == ScenarioInit /\ StreamIdle /\ TrackerIdle /\ ModeBIdle
ScenarioSpec == ScenarioSpecInit /\ [][ScenarioSpecNext]_vars

----------------------------------------------------------------------------
(* ChangeCache: capacity and eviction *)

\* C9: whatever add, removeDeleted and clear calls were made on a cache
\* constructed with maximum size N, size() is at most N.
CapacityNeverExceeded == size <= maxSize

\* an add on a full cache has just evicted and the cache is full again
CapacityReachedByEviction ==
    /\ last.op = "add"
    /\ last.evicted
    /\ maxSize = MaxN
    /\ size = maxSize

\* C10: add of a non-empty fragment that is not present, on a cache holding
\* exactly N >= 1 fragments, removes the fragment at index 0, keeps the others
\* in their order and places the new fragment last.
FifoEviction ==
    [][(/\ last'.op = "add"
        /\ last'.text # <<>>
        /\ ~ \E i \in DOMAIN changes : changes[i].text = last'.text
        /\ maxSize >= 1
        /\ Len(changes) = maxSize)
       => /\ Len(changes') = maxSize
          /\ \A i \in 1..(maxSize - 1) : changes'[i] = changes[i + 1]
          /\ changes'[maxSize].text = last'.text
          /\ changes[1].text \notin {changes'[i].text : i \in DOMAIN changes'}]_vars

\* capacity 2 after inserts x, y, z: the cache holds [y, z]
EvictedDownToYZ ==
    /\ maxSize = 2
    /\ last.op = "add"
    /\ last.evicted
    /\ Texts(changes) = << <<"y">>, <<"z">> >>

----------------------------------------------------------------------------
(* ChangeCache: what is stored *)

\* C11: after any sequence of add, removeDeleted and clear, no two fragments
\* of the cache have equal (trimmed) text.
NoDuplicateFragments ==
    \A i \in DOMAIN changes : \A j \in DOMAIN changes :
        i # j => /\ changes[i].text # changes[j].text
                 /\ Trim(changes[i].text) # Trim(changes[j].text)

\* an add of the older of two cached fragments has just been refused
DuplicateAddRefused ==
    /\ last.op = "add"
    /\ size = 2
    /\ last.before = 2
    /\ last.text = changes[1].text

\* C12: add of an empty or white-space-only text leaves the cache unchanged,
\* and in every reachable state each stored fragment is non-empty and equal to
\* its own trimmed form.
NeverStoresBlank ==
    /\ [](\A i \in DOMAIN changes :
            LET t == changes[i].text
            IN /\ t # <<>>
               /\ ~ IsWhitespace(t[1])
               /\ ~ IsWhitespace(t[Len(t)])
               /\ Trim(t) = t)
    /\ [][(last'.op = "add" /\ last'.text = <<>>) => changes' = changes]_vars

\* a blank add has just been made on a cache that holds a fragment
BlankAddOnFilledCache ==
    /\ last.op = "add"
    /\ last.text = <<>>
    /\ last.before = 1
    /\ size = 1

\* C13: add of the same fragment (after trim) twice in a row leaves size()
\* after the second call as it was after the first.
RepeatedAddKeepsSize == last.repeat => size = last.before

\* x has just been added a second time to a cache of two fragments
SecondAddOfX ==
    /\ last.repeat
    /\ last.text = <<"x">>
    /\ size = 2
    /\ changes[2].text = <<"x">>

\* t occurs in c at some position
IsSubstringOf(t, c) ==
    \E from \in 1..(Len(c) - Len(t) + 1) : SubSeq(c, from, from + Len(t) - 1) = t

\* C14: removeDeleted(c) removes exactly the fragments whose text is not a
\* substring of c, keeps every fragment whose text is one, in their order; a
\* cache whose only fragment is absent from c is empty afterwards.
RemoveDeletedKeepsSubstrings ==
    [][last'.op = "removeDeleted" =>
        /\ \A i \in DOMAIN changes :
               IsSubstringOf(changes[i].text, last'.text)
                   <=> \E k \in DOMAIN changes' : changes'[k] = changes[i]
        /\ \A k \in DOMAIN changes' :
               \E i \in DOMAIN changes : changes[i] = changes'[k]
        /\ \A k \in DOMAIN changes' : \A l \in DOMAIN changes' :
               k < l => \A i \in DOMAIN changes : \A j \in DOMAIN changes :
                           (changes[i] = changes'[k] /\ changes[j] = changes'[l])
                               => i < j
        /\ (/\ Len(changes) = 1
            /\ ~ IsSubstringOf(changes[1].text, last'.text))
               => Len(changes') = 0]_vars

\* removeDeleted has just dropped the older of two fragments and kept the other
RemovedOneKeptOne ==
    /\ last.op = "removeDeleted"
    /\ last.before = 2
    /\ size = 1
    /\ Len(last.text) = 2
    /\ changes[1].text = <<last.text[2]>>

RECURSIVE FragmentOffset(_)
FragmentOffset(i) ==
    IF i = 1 THEN 0
    ELSE FragmentOffset(i - 1) + Len(changes[i - 1].text) + 2

\* C15: getContext() is the texts of all fragments, oldest first, each
\* followed by a blank line except the last; it is the empty text for an
\* empty cache.
GetContextJoinsInOrder ==
    /\ \A i \in DOMAIN changes : \A j \in DOMAIN changes :
           i < j => changes[i].ts <= changes[j].ts
    /\ size = 0 => getContext = <<>>
    /\ size > 0 =>
           Len(getContext) = FragmentOffset(size) + Len(changes[size].text)
    /\ \A i \in DOMAIN changes :
           LET from == FragmentOffset(i)
               to == from + Len(changes[i].text)
           IN /\ SubSeq(getContext, from + 1, to) = changes[i].text
              /\ i < size => SubSeq(getContext, to + 1, to + 2) = <<"\n", "\n">>

\* y was added at a later clock time than x and the context is x, blank line, y
ContextOfXThenY ==
    /\ size = 2
    /\ changes[1].ts < changes[2].ts
    /\ getContext = <<"x", "\n", "\n", "y">>

\* C16: clear() empties the cache from any state, so size() is 0 and isEmpty()
\* is true; in every reachable state isEmpty() is true exactly when size() is 0.
ClearEmpties ==
    /\ last.op = "clear" => (size = 0 /\ isEmpty)
    /\ isEmpty <=> size = 0

\* clear has just been called on a full cache
ClearedFullCache ==
    /\ last.op = "clear"
    /\ last.before = MaxN
    /\ isEmpty

\* C30: add of a fragment that is already present (after trim) leaves the whole
\* cache unchanged: the fragment keeps its position and its timestamp and
\* nothing is evicted, so fragments are evicted in the order they were first
\* inserted.
AddOfPresentFragmentChangesNothing ==
    [][(/\ last'.op = "add"
        /\ now' = now
        /\ \E i \in DOMAIN changes : changes[i].text = last'.text)
       => /\ changes' = changes
          /\ ~last'.evicted]_vars

\* a full cache of two fragments where the older one, stored at time 0, was
\* added again at time 1
OldestAddedAgainLater ==
    /\ last.op = "add"
    /\ maxSize = 2
    /\ Len(changes) = 2
    /\ last.before = 2
    /\ changes[1].text = last.text
    /\ changes[1].ts = 0
    /\ now = 1

----------------------------------------------------------------------------
(* LineDiffer *)

\* C17: for any text T, computeSimpleDiff(T, T) is the empty diff.
IdenticalTextsEmptyDiff ==
    (dpc = "returned" /\ oldContent = newContent) => diffText = <<>>

\* the diff of a two-line text with itself has been computed
TwoLinesAgainstThemselves ==
    /\ dpc = "returned"
    /\ oldContent = <<"a", "\n", "b">>
    /\ newContent = oldContent
    /\ diffText = <<>>

\* C18: with both texts split on the line feed, the line of newText at index i
\* is reported, as '+ ' followed by the line, exactly when it differs from the
\* line of oldText at i or oldText has no line at i; the reported lines come in
\* increasing index order and nothing else is reported.
DiffIsPositional ==
    dpc = "returned" =>
        LET oldLines == Split(oldContent)
            newLines == Split(newContent)
            added == {i \in 1..Len(newLines) :
                         i > Len(oldLines) \/ oldLines[i] # newLines[i]}
            nth(k) == CHOOSE i \in added : Cardinality({j \in added : j <= i}) = k
        IN IF added = {}
           THEN diffText = <<>>
           ELSE Split(diffText) =
                    [k \in 1..Cardinality(added) |-> <<"+", " ">> \o newLines[nth(k)]]

\* a changed line followed by a line the old text has no counterpart for
ChangedThenAppendedLine ==
    /\ dpc = "returned"
    /\ oldContent = <<"b">>
    /\ newContent = <<"a", "\n", "b">>
    /\ diffText = <<"+", " ", "a", "\n", "+", " ", "b">>

Scenario1Diffed ==
    /\ dpc = "returned"
    /\ oldContent = Scenario1Baseline
    /\ newContent = Scenario1Content

\* after add("c") on a new cache of capacity 3, size() is 1 and getContext()
\* is "c"
Scenario1Cache ==
    [][(/\ maxSize = 3
        /\ changes = <<>>
        /\ last'.op = "add"
        /\ last'.text = <<"c">>)
       => /\ Len(changes') = 1
          /\ Join(Texts(changes'), <<"\n", "\n">>) = <<"c">>]_vars

IsPrefixOf(ps, ls) ==
    /\ Len(ps) <= Len(ls)
    /\ \A i \in DOMAIN ps : ps[i] = ls[i]

\* C31: whenever the lines of newText are a prefix of the lines of oldText
\* (lines were only removed from the end), computeSimpleDiff(oldText, newText)
\* is the empty diff.
TrailingDeletionsEmptyDiff ==
    (dpc = "returned" /\ IsPrefixOf(Split(newContent), Split(oldContent)))
        => diffText = <<>>

\* the second of two lines was removed and the diff computed
LastLineRemoved ==
    /\ dpc = "returned"
    /\ oldContent = <<"a", "\n", "b">>
    /\ newContent = <<"a">>
    /\ Len(Split(newContent)) < Len(Split(oldContent))
    /\ diffText = <<>>

----------------------------------------------------------------------------
(* StreamingInferenceClient: what reaches standard output *)

RECURSIVE Concat(_)
Concat(ss) == IF ss = <<>> THEN <<>> ELSE Head(ss) \o Concat(Tail(ss))

\* the non-blank lines of a text
LinesOf(text) == SelectSeq(Split(text), LAMBDA l : l # <<>>)

\* the token writes owed to the well-formed records among some lines
RECURSIVE TokensOwed(_)
TokensOwed(ls) ==
    IF ls = <<>> THEN <<>>
    ELSE LET p == JSONparse(Head(ls))
         IN (IF p.ok /\ p.obj.response # <<>>
             THEN <<TokenWrite(p.obj.response)>> ELSE <<>>)
            \o TokensOwed(Tail(ls))

\* the lines of every chunk handled so far, chunk by chunk
RECURSIVE LinesByChunk(_)
LinesByChunk(cs) ==
    IF cs = <<>> THEN <<>> ELSE LinesOf(Head(cs)) \o LinesByChunk(Tail(cs))

Written(kinds) == SelectSeq(out, LAMBDA w : w.kind \in kinds)

\* C2: a body that is one record, delivered as two chunks that split the record,
\* has the record's token written exactly once (and nothing else of the body).
SplitRecordEmittedOnce ==
    \A r \in Records :
        (/\ r.response # <<>>
         /\ Len(delivered) = 2
         /\ Concat(delivered) = Stringify(r) \o <<"\n">>
         /\ Len(delivered[1]) < Len(Stringify(r)))
        => Written({"token", "raw"}) = <<TokenWrite(r.response)>>

\* C3: once a record with done = true has been read, nothing but the closing
\* newline is written: no later record of that chunk or a later chunk is emitted.
NothingWrittenAfterDone ==
    doneAt >= 0 => \A i \in (doneAt + 1)..Len(out) : out[i].kind = "newline"

\* C4: while every line handed to the data handler has parsed, the tokens on
\* standard output are exactly the non-empty responses of the records received
\* so far, once each and in arrival order, already before the call completes.
TokensStreamedInOrder ==
    ~parseFailed => Written({"token", "raw"}) = TokensOwed(LinesOf(Concat(delivered)))

\* two records in two chunks, both tokens written, the call still pending
TwoTokensWhilePending ==
    /\ ~parseFailed
    /\ promise.state = "pending"
    /\ Len(delivered) = 2
    /\ Written({"token"}) = <<TokenWrite(<<"a">>), TokenWrite(<<"b">>)>>

\* C5: a response with status >= 400 rejects generate with an error carrying
\* the status code; its body never reaches the data handler and none of it is
\* written.
FailureStatusRejects ==
    status >= 400 =>
        /\ promise = [state |-> "rejected", error |-> HttpError(status)]
        /\ delivered = <<>>
        /\ Written({"token", "raw"}) = <<>>
        /\ gpc # "returned"
        /\ gpc = "caught" => errlog = <<HttpError(status)>>

\* status 500 with a record in the body: the error is reported, the body dropped
Status500Reported ==
    /\ status = 500
    /\ gpc = "caught"
    /\ res = "ended"
    /\ dropped = Stringify([response |-> <<"a">>, done |-> TRUE]) \o <<"\n">>

\* C6: a line that fails to parse costs only itself: every well-formed record
\* handed to the data handler, before or after a bad line, has its token
\* written and its done flag honoured, and the call does not fail for it.
ParseFailureRecoveredPerLine ==
    /\ Written({"token"}) = TokensOwed(LinesByChunk(delivered))
    /\ (\E i \in DOMAIN LinesByChunk(delivered) :
            LET p == JSONparse(LinesByChunk(delivered)[i]) IN p.ok /\ p.obj.done)
       => promise.state # "pending"
    /\ (parseFailed /\ ~errSeen) => promise.state # "rejected"

\* C7: once a done record was read, the response ended or the request failed,
\* the call completes: summarizeFile gets past its await.
GenerateCompletes ==
    (doneSeen \/ endSeen \/ errSeen) ~> (gpc \in {"returned", "caught"})

\* the response ended without a done record and the call has returned
CompletedOnEndWithoutDone ==
    /\ endSeen
    /\ ~doneSeen
    /\ ~errSeen
    /\ delivered # <<>>
    /\ gpc = "returned"

\* C8: on standard output every token of the analysis comes after the marker
\* and before the closing newline.
AnalysisFramed ==
    \A i \in DOMAIN out :
        out[i].kind \in {"token", "raw"} =>
            /\ \E m \in 1..(i - 1) : out[m].kind = "marker"
            /\ ~ \E n \in 1..(i - 1) : out[n].kind = "newline"

\* the writes one step appends to standard output
NewWrites == (Len(out) + 1)..Len(out')

\* C28: the data handler never writes the text of one record twice: no chunk
\* has a record's response written as a token and then again inside the chunk
\* text the catch block writes, whatever the chunking and also when well-formed
\* lines are followed by a line that fails to parse.
RecordWrittenAtMostOnce ==
    [][\A m \in NewWrites : \A n \in NewWrites :
         (out'[m].kind = "token" /\ out'[n].kind = "raw") =>
             ~ \E i \in DOMAIN LinesOf(out'[n].text) :
                   LET p == JSONparse(LinesOf(out'[n].text)[i])
                   IN p.ok /\ p.obj.response = out'[m].text]_vars

\* C29: the outcome of one generate call is decided once, by the first of a
\* done record, the end of the response, a status >= 400 or a request error;
\* no later event changes it.
OutcomeDecidedOnce ==
    [][/\ promise.state # "pending" => promise' = promise
       /\ (gpc # "idle" /\ promise.state = "pending" /\ promise'.state # "pending") =>
              \/ /\ promise' = [state |-> "resolved", error |-> NoError]
                 /\ (~doneSeen /\ doneSeen') \/ (~endSeen /\ endSeen')
              \/ /\ promise' = [state |-> "rejected", error |-> HttpError(status')]
                 /\ status = 0 /\ status' >= 400
              \/ /\ promise' = [state |-> "rejected", error |-> RequestError]
                 /\ ~errSeen /\ errSeen']_vars

\* a done record resolved the call; the end of the response and a request
\* error came afterwards
SettledBeforeLaterEvents ==
    /\ promise = [state |-> "resolved", error |-> NoError]
    /\ doneSeen
    /\ errSeen
    /\ gpc = "returned"

----------------------------------------------------------------------------
(* FileChangeTracker: edits of one path *)

BaselineStored(e) == e.pc \in {"gitDiff", "summarize", "done"}

\* C1: when two change events on one path have both been processed, the stored
\* baseline of the path is the content read by the later event.
LaterEditOwnsBaseline ==
    \A i, j \in DOMAIN evts :
        (/\ i < j
         /\ evts[i].path = evts[j].path
         /\ BaselineStored(evts[i])
         /\ BaselineStored(evts[j])
         /\ \A k \in DOMAIN evts : k > j => evts[k].path # evts[j].path)
        => baselines[evts[j].path] = evts[j].content

\* the step in which invocation i executes baselines.set
BaselineSetBy(i) == evts[i].pc \in {"catFile", "show"} /\ evts'[i].pc = "gitDiff"

\* the baseline changes only in the one step an invocation sets it, to the
\* content that invocation read, and the local diff of that invocation is
\* taken against the baseline stored before, or the HEAD content when none is
BaselineSetOncePerEdit ==
    [][/\ baselines' # baselines =>
              Cardinality({i \in DOMAIN evts : BaselineSetBy(i)}) = 1
       /\ \A i \in DOMAIN evts :
              BaselineSetBy(i) =>
                  LET abs == evts[i].path
                      e == evts'[i]
                  IN /\ abs \in DOMAIN baselines'
                     /\ baselines'[abs] = e.content
                     /\ e.headContent \in {<<>>} \cup {head[q] : q \in DOMAIN head \cap {abs}}
                     /\ e.lastBaseline = IF abs \in DOMAIN baselines
                                          THEN baselines[abs]
                                          ELSE e.headContent
                     /\ e.localDiff = computeSimpleDiff(e.lastBaseline, e.content)]_vars

\* once every edit observed on a path has been processed, the baseline of the
\* path is the content read for the edit observed last
BaselineIsLatestEdit ==
    \A abs \in Paths :
        LET observed == {i \in DOMAIN evts : evts[i].path = abs}
            latest == CHOOSE i \in observed : \A j \in observed : j <= i
        IN (/\ observed # {}
            /\ \A i \in observed : BaselineStored(evts[i]))
           => /\ abs \in DOMAIN baselines
              /\ baselines[abs] = evts[latest].content

\* C20: the stored baseline of a path is mutated exactly once per processed
\* edit event and, after any sequence of processed edits, equals the content
\* read for the most recently observed edit of that path; the local diff of an
\* edit is computed against the stored baseline when one exists and against
\* the HEAD content otherwise.
BaselineInvariant == BaselineSetOncePerEdit /\ []BaselineIsLatestEdit

----------------------------------------------------------------------------
(* FileChangeTracker: what is reported, and failures *)

\* the invocation has ended, normally or not
Ended(e) == e.pc \in {"done", "rejected", "logged", "skipped", "returned"}

\* the invocation has executed baselines.set
RanBaselinesSet(e) ==
    \/ e.pc \in {"gitDiff", "summarize", "done"} /\ variant = "git"
    \/ e.failed = "gitDiff"

\* C21: every change event whose file content is read successfully results in
\* exactly one emission of (fullContent, gitDiff, localDiff) to the prompting
\* step, also when the local diff is empty.
EveryReadEditReported ==
    \A i \in DOMAIN evts :
        /\ evts[i].emitted <= 1
        /\ evts[i].emitted = 1 => evts[i].read
        /\ (evts[i].read /\ Ended(evts[i])) => evts[i].emitted = 1

\* C22: a failure of the existence check, the content lookup or the diff
\* lookup of the committed revision is never propagated out of edit
\* processing; the edit is still tracked and goes on to be reported, with the
\* empty text for the content that could not be obtained.
LookupFailuresAbsorbed ==
    \A i \in DOMAIN evts :
        evts[i].failed \in {"catFile", "show", "gitDiff"} =>
            /\ evts[i].pc # "rejected"
            /\ RanBaselinesSet(evts[i])
            /\ evts[i].failed \in {"catFile", "show"} => evts[i].headContent = <<>>
            /\ Ended(evts[i]) => evts[i].emitted = 1

\* C23: when reading the file content fails, processing of that event stops,
\* no inference request is issued, the baseline of the path is not modified,
\* and the failure is logged and does not escape the event handler.
ReadFailureLogged ==
    \A i \in DOMAIN evts :
        evts[i].failed = "readFile" =>
            /\ evts[i].pc = "logged"
            /\ evts[i].emitted = 0
            /\ ~ RanBaselinesSet(evts[i])

\* C24: a change event for a file larger than 2 MB, or for a path that is not
\* a regular file, issues no inference request and changes no tracker state; a
\* file of exactly 2 MB is processed.
OnlyRegularFilesWithinLimit ==
    \A i \in DOMAIN evts :
        LET st == stat[evts[i].path]
        IN /\ (~ st.isFile \/ st.size > MaxFileSize) =>
                  /\ evts[i].emitted = 0
                  /\ ~ evts[i].read
                  /\ ~ RanBaselinesSet(evts[i])
           /\ (/\ st.isFile
               /\ st.size = MaxFileSize
               /\ evts[i].failed = "none"
               /\ Ended(evts[i])) => evts[i].emitted = 1

\* the stored baseline of path q, NoBaseline when the map has no entry
NoBaseline == <<"none">>
BaselineOf(bl, q) == IF q \in DOMAIN bl THEN bl[q] ELSE NoBaseline

\* C26: processing an edit for one path leaves the stored baseline of every
\* other path unchanged, for any interleaving of the edits of different paths
\* across their suspension points.
OtherBaselinesUntouched ==
    [][\A q \in Paths :
          BaselineOf(baselines', q) # BaselineOf(baselines, q) =>
              /\ \E i \in DOMAIN evts : evts'[i] # evts[i] /\ evts[i].path = q
              /\ \A i \in DOMAIN evts : evts'[i] # evts[i] => evts[i].path = q]_vars

\* edits of p and q were in flight together and each path holds its own content
BothPathsTracked ==
    /\ Len(evts) = 2
    /\ evts[1].path = "p"
    /\ evts[2].path = "q"
    /\ evts[1].pc = "gitDiff"
    /\ evts[2].pc = "gitDiff"
    /\ setter = [p |-> 1, q |-> 2]
    /\ evts[1].content # evts[2].content
    /\ baselines = [p |-> evts[1].content, q |-> evts[2].content]

\* C27: a failure of the analysis is not propagated out of onEvent and is not
\* retried, and the baseline stored for that edit is not rolled back: the edit
\* of the same path that next takes its local diff is diffed against the
\* content of the edit whose analysis failed.
InferenceFailureKeepsTracking ==
    /\ [](\A i \in DOMAIN evts :
            evts[i].analysis = "failed" =>
                /\ evts[i].pc = "done"
                /\ evts[i].emitted = 1
                /\ \A j \in DOMAIN evts :
                       (RanBaselinesSet(evts[j]) /\ evts[j].basedOn = i) =>
                           /\ evts[j].path = evts[i].path
                           /\ evts[j].lastBaseline = evts[i].content
                           /\ evts[j].localDiff =
                                  computeSimpleDiff(evts[i].content, evts[j].content))
    /\ [][\A i \in DOMAIN evts :
             (evts[i].pc = "summarize" /\ evts'[i].pc = "done") =>
                 baselines' = baselines]_vars

\* the analysis of the first edit of p failed and the second edit of p was
\* diffed against the content of the first
FailedEditIsNextBaseline ==
    /\ Len(evts) = 2
    /\ evts[1].path = evts[2].path
    /\ evts[1].analysis = "failed"
    /\ evts[2].pc = "done"
    /\ evts[2].basedOn = 1
    /\ evts[2].lastBaseline = evts[1].content
    /\ evts[2].localDiff # <<>>

----------------------------------------------------------------------------
(* FileChangeTracker: the cache-based tracker *)

\* the number of lines of newText the diff against oldText records as added
AddedLineCount(oldText, newText) ==
    LET oldLines == Split(oldText)
        newLines == Split(newText)
    IN Cardinality({i \in 1..Len(newLines) :
                       i > Len(oldLines) \/ oldLines[i] # newLines[i]})

\* C25: when the added-line count of an edit exceeds the configured threshold,
\* then after that edit the baseline of the path equals the new content, the
\* ChangeCache of the path is empty, and nothing is emitted.
DisruptiveChangeResets ==
    [][(/\ mbSeen
        /\ now' = now
        /\ AddedLineCount(mbBaseline, mbContent') > mbThreshold)
       => /\ mbBaseline' = mbContent'
          /\ Len(changes') = 0
          /\ mbReport'.kind # "emit"
          /\ mbReport'.context = <<>>]_vars

\* an edit above the threshold has just emptied a cache that held a fragment
DisruptiveEditClearedCache ==
    /\ mbReport.kind = "reset"
    /\ mbReport.before >= 1
    /\ isEmpty
    /\ mbBaseline = mbContent
    /\ mbThreshold = MaxThreshold

====
